---- MODULE Spec2Model ----
(***************************************************************************)
(* A model of the PouchDB plugin of db-framework:                          *)
(*   - Transaction (retry with exponential backoff),                       *)
(*   - PouchDbPlugin.formatBulkDocsResponse / setDbGeneratedValues,        *)
(*   - PouchDbPlugin.formatDeletions,                                      *)
(*   - PouchDbPlugin.doWork and the operations built on it.                *)
(* Each part has its own specification (SpecTx, SpecBulk, SpecDel,         *)
(* SpecWork); a specification leaves the other parts' variables alone.     *)
(***************************************************************************)
EXTENDS Integers, Sequences, FiniteSets, TLC

VARIABLES
    \* ---- Transaction instances (one entry per instance) ----
    backoffTimeout,   \* this._backoffTimeout
    inflight,         \* attempts of this._action awaiting settlement
    timers,           \* pending setTimeout callbacks
    timerLog,         \* delays passed to setTimeout, in order
    attempts,         \* number of times this._action was run
    resolved,         \* number of calls of this._resolve
    rejected,         \* number of calls of this._reject
    rejectValue,      \* the value passed to this._reject
    failedWith,       \* history: the errors the action has failed with
    \* ---- one call of bulkOperations, then setDbGeneratedValues ----
    operations,       \* the argument of bulkOperations: adds, removes, updates
    raw,              \* what the store's bulkDocs answered
    response,         \* what bulkOperations resolved to
    entities,         \* the entity objects handed to setDbGeneratedValues
    bulkPc,           \* "idle", "resolved", "rejected" or "set" ("off": not modelled)
    \* ---- formatDeletions, applied to entities and then to its own result ----
    delInput,         \* the entities passed to formatDeletions
    delOnce,          \* formatDeletions(...delInput)
    delTwice,         \* formatDeletions(...delOnce)
    delPc,            \* "idle", "once" or "twice" ("off": not modelled)
    \* ---- calls of the plugin's operations, one after the other ----
    handles,          \* every store handle createDb made: "open", "closed", "destroyed"
    doWorkCalls,      \* number of calls of doWork so far
    call,             \* the operation being run, or the last one run
    callsMade         \* number of operations called so far

txVars == <<backoffTimeout, inflight, timers, timerLog, attempts, resolved,
            rejected, rejectValue, failedWith>>

bulkVars == <<operations, raw, response, entities, bulkPc>>

delVars == <<delInput, delOnce, delTwice, delPc>>

workVars == <<handles, doWorkCalls, call, callsMade>>

vars == <<txVars, bulkVars, delVars, workVars>>

\* what the steps of one part leave alone
notTx == <<bulkVars, delVars, workVars>>
notBulk == <<txVars, delVars, workVars>>
notDel == <<txVars, bulkVars, workVars>>
notWork == <<txVars, bulkVars, delVars>>

(***************************************************************************)
(* JavaScript values.  A value carries its typeof tag, so that the code's  *)
(* dynamic checks (typeof x === "number", 'f' in obj, !x) can be computed. *)
(* An object is a record; 'f' in obj is  f \in DOMAIN obj.                 *)
(***************************************************************************)
Num(n) == [type |-> "number", num |-> n]
Str(s) == [type |-> "string", str |-> s]
Bool(b) == [type |-> "boolean", bool |-> b]
Undefined == [type |-> "undefined"]

\* obj.f : undefined when the object has no such field
Get(obj, f) == IF f \in DOMAIN obj THEN obj[f] ELSE Undefined

\* !v
Falsy(v) ==
    /\ "type" \in DOMAIN v
    /\ \/ v.type = "undefined"
       \/ v.type = "string" /\ v.str = ""
       \/ v.type = "number" /\ v.num = 0
       \/ v.type = "boolean" /\ v.bool = FALSE

\* no value yet (a callback not called, a promise not settled)
NoValue == [type |-> "none"]

\* { ...obj, f1: v1, ... } : the fields of obj, overridden or extended by upd
Spread(obj, upd) ==
    [f \in (DOMAIN obj) \cup (DOMAIN upd) |->
        IF f \in DOMAIN upd THEN upd[f] ELSE obj[f]]

(***************************************************************************)
(*                              Transaction                                *)
(***************************************************************************)
NumTx == 2
Tx == 1..NumTx

InitialBackoff == 25
MaxBackoffTimeout == 2000

\* Errors an action (or createDb) may fail with.
E503 == [status |-> Num(503), message |-> Str("timeout"), name |-> Str("unknown")]
E500 == [status |-> Num(500), message |-> Num(7)]
E404 == [status |-> Num(404), message |-> Str("missing"), name |-> Str("not_found")]
EStrStatus == [status |-> Str("503"), message |-> Str("bad gateway")]
ENoStatus == [message |-> Str("database is closed")]
TxErrors == {E503, E500, E404, EStrStatus, ENoStatus}


\* a mutant of ShouldRetry: the client-error class is retried too
ShouldRetry400(error) ==
    IF "status" \in DOMAIN error /\ error.status.type = "number"
    THEN error.status.num >= 400
    ELSE FALSE

ShouldRetry(error) ==
    IF "status" \in DOMAIN error /\ error.status.type = "number"
    THEN error.status.num >= 500
    ELSE FALSE

\* a mutant of NextBackoff: the first wait is taken for an earlier one and doubled
NextBackoffSkipFirst(b) == IF b = 0 THEN InitialBackoff * 2 ELSE b * 2

\* a mutant of NextBackoff: the wait never grows
NextBackoffConstant(b) == InitialBackoff

NextBackoff(b) == IF b = 0 THEN InitialBackoff ELSE b * 2

\* a mutant of RetryFailedMessage: the ceiling is reported, not the wait
RetryFailedMessageCeiling(b, message) ==
    "Retry Failed.  Max Wait: " \o ToString(MaxBackoffTimeout)
        \o ".  Original Message: " \o message

RetryFailedMessage(b, message) ==
    "Retry Failed.  Max Wait: " \o ToString(b)
        \o ".  Original Message: " \o message

\* the value rejected with when the ceiling is reached
CeilingRejection(e, b) ==
    IF "message" \in DOMAIN e /\ e.message.type = "string"
    THEN Spread(e, [message |-> Str(RetryFailedMessage(b, e.message.str))])
    ELSE e

InitTx ==
    /\ backoffTimeout = [t \in Tx |-> 0]
    /\ inflight = [t \in Tx |-> 0]
    /\ timers = [t \in Tx |-> 0]
    /\ timerLog = [t \in Tx |-> <<>>]
    /\ attempts = [t \in Tx |-> 0]
    /\ resolved = [t \in Tx |-> 0]
    /\ rejected = [t \in Tx |-> 0]
    /\ rejectValue = [t \in Tx |-> NoValue]
    /\ failedWith = [t \in Tx |-> {}]

\* execute() up to its await: createDb() and the call of the action
StartAttempt(t) ==
    /\ attempts' = [attempts EXCEPT ![t] = @ + 1]
    /\ inflight' = [inflight EXCEPT ![t] = @ + 1]

\* the owner of the transaction calls execute()
Execute(t) ==
    /\ attempts[t] = 0
    /\ StartAttempt(t)
    /\ UNCHANGED <<backoffTimeout, timers, timerLog, resolved, rejected,
                   rejectValue, failedWith>>
    /\ UNCHANGED notTx

\* the awaited action resolves: this._resolve({ result, db })
ActionResolves(t) ==
    /\ inflight[t] > 0
    /\ inflight' = [inflight EXCEPT ![t] = @ - 1]
    /\ resolved' = [resolved EXCEPT ![t] = @ + 1]
    /\ UNCHANGED <<backoffTimeout, timers, timerLog, attempts, rejected,
                   rejectValue, failedWith>>
    /\ UNCHANGED notTx

\* a mutant of ScheduleRetry: setTimeout(callback(this._action), delay) runs the
\* callback at once and also leaves a timer behind
ScheduleRetryAtOnce(t, delay) ==
    /\ timers' = [timers EXCEPT ![t] = @ + 1]
    /\ timerLog' = [timerLog EXCEPT ![t] = Append(@, delay)]
    /\ attempts' = [attempts EXCEPT ![t] = @ + 1]
    /\ inflight' = inflight
    /\ UNCHANGED <<rejected, rejectValue>>

\* setTimeout(() => callback(this._action), this._backoffTimeout)
ScheduleRetry(t, delay) ==
    /\ timers' = [timers EXCEPT ![t] = @ + 1]
    /\ timerLog' = [timerLog EXCEPT ![t] = Append(@, delay)]
    /\ attempts' = attempts
    /\ inflight' = [inflight EXCEPT ![t] = @ - 1]
    /\ UNCHANGED <<rejected, rejectValue>>

Reject(t, value) ==
    /\ rejected' = [rejected EXCEPT ![t] = @ + 1]
    /\ rejectValue' = [rejectValue EXCEPT ![t] = value]
    /\ attempts' = attempts
    /\ inflight' = [inflight EXCEPT ![t] = @ - 1]
    /\ UNCHANGED <<timers, timerLog>>

\* the awaited action rejects (or createDb / the action throws): the catch block
ActionRejects(t, e) ==
    /\ inflight[t] > 0
    /\ failedWith' = [failedWith EXCEPT ![t] = @ \cup {e}]
    /\ UNCHANGED resolved
    /\ IF ShouldRetry(e)
       THEN LET b == NextBackoff(backoffTimeout[t]) IN
            /\ backoffTimeout' = [backoffTimeout EXCEPT ![t] = b]
            /\ IF b >= MaxBackoffTimeout
               THEN Reject(t, CeilingRejection(e, b))
               ELSE ScheduleRetry(t, b)
       ELSE /\ UNCHANGED backoffTimeout
            /\ Reject(t, e)
    /\ UNCHANGED notTx

\* the timer fires: execute() runs again
TimerFires(t) ==
    /\ timers[t] > 0
    /\ timers' = [timers EXCEPT ![t] = @ - 1]
    /\ StartAttempt(t)
    /\ UNCHANGED <<backoffTimeout, timerLog, resolved, rejected, rejectValue,
                   failedWith>>
    /\ UNCHANGED notTx

Settle(t) == ActionResolves(t) \/ \E e \in TxErrors : ActionRejects(t, e)

\* a step of one of the instances in S
NextOf(S) ==
    \E t \in S :
        \/ Execute(t)
        \/ ActionResolves(t)
        \/ \E e \in TxErrors : ActionRejects(t, e)
        \/ TimerFires(t)


(***************************************************************************)
(*        bulkOperations, formatBulkDocsResponse, setDbGeneratedValues     *)
(***************************************************************************)
MaxDocs == 2

SeqsUpTo(S, n) == UNION {[1..k -> S] : k \in 0..n}

\* Entities of the caller: a new one (no _rev) and persisted ones.
BulkIds == {"a", "b"}
BulkEntities ==
    {[_id |-> Str(i), DocumentType |-> Str("Note")] : i \in BulkIds}
    \cup {[_id |-> Str(i), _rev |-> Str("1-x"), DocumentType |-> Str("Note")] :
            i \in BulkIds}

NoOperations == [adds |-> <<>>, removes |-> <<>>, updates |-> <<>>]

\* [...removes, ...adds, ...updates]
Docs(ops) == ops.removes \o ops.adds \o ops.updates

\* What the store's bulkDocs may answer for one document: a PouchDB.Core.Response
\* (ok is a boolean), or a PouchDB.Core.Error, whose id is optional.
StoreOutcomes(doc) ==
    {[ok |-> Bool(b), id |-> doc._id, rev |-> Str("2-y")] : b \in BOOLEAN}
    \cup {[error |-> Bool(TRUE), status |-> Num(409), name |-> Str("conflict"),
           message |-> Str("Document update conflict"), id |-> doc._id],
          [error |-> Bool(TRUE), status |-> Num(500), name |-> Str("unknown"),
           message |-> Str("write failed")]}

\* bulkDocs answers with one outcome per document, in the documents' order
StoreAnswers(docs) ==
    {o \in [1..Len(docs) -> UNION {StoreOutcomes(docs[i]) : i \in 1..Len(docs)}] :
        \A i \in 1..Len(docs) : o[i] \in StoreOutcomes(docs[i])}

\* map[key] = value
Put(map, key, value) ==
    [k \in (DOMAIN map) \cup {key} |-> IF k = key THEN value ELSE map[k]]

EmptyMap == [k \in {} |-> NoValue]

EmptyResponse ==
    [errors |-> EmptyMap, successes |-> EmptyMap, errors_count |-> 0,
     successes_count |-> 0]

\* a mutant of ErrorItem: the error is counted before its id is looked at
ErrorItemCountedFirst(result, error) ==
    IF Falsy(Get(error, "id"))
    THEN [result EXCEPT !.errors_count = @ + 1]
    ELSE [result EXCEPT
            !.errors_count = @ + 1,
            !.errors = Put(@, error.id.str,
                           [id |-> error.id, ok |-> Bool(FALSE),
                            error |-> Get(error, "message"),
                            rev |-> Get(error, "rev")])]

\* the loop body for an item with an 'error' field
ErrorItem(result, error) ==
    IF Falsy(Get(error, "id"))
    THEN result
    ELSE [result EXCEPT
            !.errors_count = @ + 1,
            !.errors = Put(@, error.id.str,
                           [id |-> error.id, ok |-> Bool(FALSE),
                            error |-> Get(error, "message"),
                            rev |-> Get(error, "rev")])]

\* the loop body for any other item
SuccessItem(result, success) ==
    [result EXCEPT
        !.successes_count = @ + 1,
        !.successes = Put(@, success.id.str,
                          [id |-> success.id, ok |-> success.ok,
                           rev |-> success.rev])]

RECURSIVE FormatItems(_, _, _)
FormatItems(items, i, result) ==
    IF i > Len(items)
    THEN result
    ELSE FormatItems(items, i + 1,
                     IF "error" \in DOMAIN items[i]
                     THEN ErrorItem(result, items[i])
                     ELSE SuccessItem(result, items[i]))

formatBulkDocsResponse(items) == FormatItems(items, 1, EmptyResponse)

\* a mutant of GeneratedRev: the success entry's ok is not looked at
GeneratedRevAlways(successes, modification) ==
    LET found == Get(successes, modification._id.str) IN
    IF ~Falsy(found)
    THEN Spread(modification, [_rev |-> found.rev])
    ELSE modification

\* the loop body of setDbGeneratedValues: the entity after the call
GeneratedRev(successes, modification) ==
    LET found == Get(successes, modification._id.str) IN
    IF ~Falsy(found) /\ found.ok = Bool(TRUE)
    THEN Spread(modification, [_rev |-> found.rev])
    ELSE modification

setDbGeneratedValues(resp, ents) ==
    [i \in 1..Len(ents) |-> GeneratedRev(resp.successes, ents[i])]

InitBulk ==
    /\ operations \in
         {ops \in [adds : SeqsUpTo(BulkEntities, MaxDocs),
                   removes : SeqsUpTo(BulkEntities, MaxDocs),
                   updates : SeqsUpTo(BulkEntities, MaxDocs)] :
             Len(Docs(ops)) <= MaxDocs}
    /\ raw = <<>>
    /\ response = NoValue
    /\ entities = Docs(operations)
    /\ bulkPc = "idle"

\* bulkOperations: doWork(w => w.bulkDocs(...)) resolves, the answer is formatted
BulkOperations ==
    /\ bulkPc = "idle"
    /\ \E answer \in StoreAnswers(Docs(operations)) :
        /\ raw' = answer
        /\ response' = formatBulkDocsResponse(answer)
    /\ bulkPc' = "resolved"
    /\ UNCHANGED <<operations, entities>>
    /\ UNCHANGED notBulk

\* bulkOperations: bulkDocs rejects, and so do doWork and bulkOperations
BulkOperationsRejects ==
    /\ bulkPc = "idle"
    /\ bulkPc' = "rejected"
    /\ UNCHANGED <<operations, raw, response, entities>>
    /\ UNCHANGED notBulk

\* the caller hands the response and the written entities to setDbGeneratedValues
SetDbGeneratedValues ==
    /\ bulkPc = "resolved"
    /\ entities' = setDbGeneratedValues(response, entities)
    /\ bulkPc' = "set"
    /\ UNCHANGED <<operations, raw, response>>
    /\ UNCHANGED notBulk

ParkedBulk ==
    /\ operations = NoOperations
    /\ raw = <<>>
    /\ response = NoValue
    /\ entities = <<>>
    /\ bulkPc = "off"


(***************************************************************************)
(*                            formatDeletions                              *)
(***************************************************************************)
MaxDeletions == 2

\* Entities with and without a _rev, with and without fields of their own, one
\* of them carrying a _deleted flag of false.
DelEntities ==
    {[_id |-> Str("a"), _rev |-> Str("1-x"), DocumentType |-> Str("Note")],
     [_id |-> Str("a"), _rev |-> Str("1-x"), DocumentType |-> Str("Note"),
      title |-> Str("t"), pages |-> Num(3)],
     [_id |-> Str("b"), DocumentType |-> Str("Book"), title |-> Str("u")],
     [_id |-> Str("b"), _rev |-> Str("2-y"), DocumentType |-> Str("Book"),
      _deleted |-> Bool(FALSE)],
     [_id |-> Str("c"), _rev |-> Str("1-x"), DocumentType |-> Str("Note"),
      _deleted |-> Bool(TRUE), title |-> Str("t")],
     [_id |-> Str("c"), DocumentType |-> Str("Book")]}

\* a mutant of DeletionOf: a bare tombstone, the entity's own fields dropped
DeletionOfBare(w) ==
    [_id |-> Get(w, "_id"), _rev |-> Get(w, "_rev"),
     DocumentType |-> Get(w, "DocumentType"), _deleted |-> Bool(TRUE)]

\* { ...w, _id: w._id, _rev: w._rev, DocumentType: w.DocumentType, _deleted: true }
DeletionOf(w) ==
    Spread(w, [_id |-> Get(w, "_id"), _rev |-> Get(w, "_rev"),
               DocumentType |-> Get(w, "DocumentType"),
               _deleted |-> Bool(TRUE)])

formatDeletions(ents) == [i \in 1..Len(ents) |-> DeletionOf(ents[i])]

InitDel ==
    /\ delInput \in SeqsUpTo(DelEntities, MaxDeletions)
    /\ delOnce = <<>>
    /\ delTwice = <<>>
    /\ delPc = "idle"

FormatDeletions ==
    /\ delPc = "idle"
    /\ delOnce' = formatDeletions(delInput)
    /\ delPc' = "once"
    /\ UNCHANGED <<delInput, delTwice>>
    /\ UNCHANGED notDel

FormatDeletionsAgain ==
    /\ delPc = "once"
    /\ delTwice' = formatDeletions(delOnce)
    /\ delPc' = "twice"
    /\ UNCHANGED <<delInput, delOnce>>
    /\ UNCHANGED notDel

ParkedDel ==
    /\ delInput = <<>>
    /\ delOnce = <<>>
    /\ delTwice = <<>>
    /\ delPc = "off"

(***************************************************************************)
(*             doWork and the operations of the plugin built on it         *)
(***************************************************************************)
MaxCalls == 2

Operations == {"destroy", "all", "query", "getStrict", "get", "bulkOperations"}

\* the shouldClose argument each operation passes to doWork (true by default)
ShouldCloseAlways(op) == TRUE

ShouldClose(op) == op \notin {"destroy", "get"}

\* Errors the store fails with.
EClosed == [message |-> Str("database is closed")]
EClosedLong == [name |-> Str("Error"), message |-> Str("Error: database is closed.")]
EQuota == [status |-> Num(500), name |-> Str("unknown"), message |-> Str("quota exceeded")]
EBare == [status |-> Num(404), name |-> Str("not_found")]
StoreErrors == {EClosed, EClosedLong, EQuota, EBare}

\* str.includes(part)
Includes(str, part) ==
    \E i \in 1..(Len(str) - Len(part) + 1) :
        SubSeq(str, i, i + Len(part) - 1) = part

\* 'message' in e && e.message.includes("database is closed")
IsDatabaseClosed(e) ==
    "message" \in DOMAIN e /\ Includes(e.message.str, "database is closed")

StoredDoc == [_id |-> Str("a"), _rev |-> Str("1-x"), DocumentType |-> Str("Note")]

FindResponses == {[docs |-> <<>>], [docs |-> <<StoredDoc>>]}

BulkGetMissing == [status |-> Num(404), name |-> Str("not_found")]

BulkGetResponses ==
    {[results |-> <<[id |-> "a", docs |-> <<[ok |-> StoredDoc]>>]>>],
     [results |-> <<[id |-> "a", docs |-> <<[error |-> BulkGetMissing]>>]>>]}

BulkDocsAnswers ==
    {<<[ok |-> Bool(TRUE), id |-> Str("a"), rev |-> Str("2-y")]>>,
     <<[error |-> Bool(TRUE), status |-> Num(409), name |-> Str("conflict"),
        message |-> Str("Document update conflict"), id |-> Str("a")]>>}

\* what the store call made by the operation's action may resolve to
StoreValues(op) ==
    CASE op \in {"all", "query", "get"} -> FindResponses
      [] op = "getStrict" -> BulkGetResponses
      [] op = "bulkOperations" -> BulkDocsAnswers
      [] op = "destroy" -> {[ok |-> Bool(TRUE)]}

Resolved(v) == [kind |-> "resolved", value |-> v]
Rejected(e) == [kind |-> "rejected", error |-> e]

\* JSON.stringify(error, null, 2) of a bulkGet error
Stringify(error) ==
    "{\n  \"status\": " \o ToString(error.status.num)
        \o ",\n  \"name\": \"" \o error.name.str \o "\"\n}"

\* getStrict after doWork: the documents, or the throw for the first read error
StrictDocs(results) ==
    LET failing == {i \in 1..Len(results) : "error" \in DOMAIN results[i].docs[1]} IN
    IF failing = {}
    THEN Resolved([i \in 1..Len(results) |-> results[i].docs[1].ok])
    ELSE LET i == CHOOSE k \in failing : \A m \in failing : k <= m IN
         Rejected([message |->
             Str("docid: " \o results[i].id \o ", error: "
                 \o Stringify(results[i].docs[1].error))])

\* what the operation settles with once doWork has resolved with v
OnWorkResolved(op, v) ==
    CASE op \in {"all", "get"} -> Resolved(v.docs)
      [] op = "getStrict" -> StrictDocs(v.results)
      [] op = "bulkOperations" -> Resolved(formatBulkDocsResponse(v))
      [] op \in {"query", "destroy"} -> Resolved(v)

\* what the operation settles with once doWork has rejected with e: get has a
\* try / catch around its await, the others have none
OnWorkRejected(op, e) ==
    IF op = "get" /\ ~IsDatabaseClosed(e)
    THEN Resolved(<<>>)
    ELSE Rejected(e)

\* createDb: new PouchDB(...)
CreateDb(hs) == Append(hs, "open")

NoCall ==
    [op |-> "none", pc |-> "done", db |-> 0, degraded |-> FALSE,
     actionResolved |-> FALSE, storeFailure |-> NoValue, result |-> NoValue]

InitWork ==
    /\ handles = <<>>
    /\ doWorkCalls = 0
    /\ call = NoCall
    /\ callsMade = 0

CanCall == call.pc = "done" /\ callsMade < MaxCalls

\* doWork up to its await: createDb() and the call of the action
DoWorkStarts(op) ==
    /\ handles' = CreateDb(handles)
    /\ doWorkCalls' = doWorkCalls + 1
    /\ callsMade' = callsMade + 1

\* an operation is called and its store call returns a promise
Invoke(op) ==
    /\ CanCall
    /\ DoWorkStarts(op)
    /\ call' = [NoCall EXCEPT !.op = op, !.pc = "action", !.db = Len(handles')]
    /\ UNCHANGED notWork

\* an operation is called and its store call throws at once.  The try / catch
\* inside the action of all() sees the throw: it rethrows a closed-database
\* error and otherwise returns a promise resolved to no documents.  For every
\* other operation, and for the rethrow, the throw leaves doWork as a rejection.
InvokeThrows(op, e) ==
    /\ CanCall
    /\ DoWorkStarts(op)
    /\ LET c == [NoCall EXCEPT !.op = op, !.db = Len(handles'),
                               !.storeFailure = [mode |-> "sync", error |-> e]]
       IN  call' = IF op = "all" /\ ~IsDatabaseClosed(e)
                   THEN [c EXCEPT !.pc = "action", !.degraded = TRUE]
                   ELSE [c EXCEPT !.result = OnWorkRejected(op, e)]
    /\ UNCHANGED notWork

\* getStrict() with no ids returns [] before doWork is reached
GetStrictOfNothing ==
    /\ CanCall
    /\ callsMade' = callsMade + 1
    /\ call' = [NoCall EXCEPT !.op = "getStrict", !.result = Resolved(<<>>)]
    /\ UNCHANGED <<handles, doWorkCalls>>
    /\ UNCHANGED notWork

\* the awaited action resolves: doWork closes the handle when asked to and
\* awaits the close, else it returns the result
ActionPromiseResolves ==
    /\ call.pc = "action"
    /\ \E v \in (IF call.degraded THEN {[docs |-> <<>>]}
                                  ELSE StoreValues(call.op)) :
        IF ShouldClose(call.op)
        THEN /\ handles' = [handles EXCEPT ![call.db] = "closed"]
             /\ call' = [call EXCEPT !.pc = "closing", !.actionResolved = TRUE,
                                     !.result = OnWorkResolved(call.op, v)]
        ELSE /\ handles' = [handles EXCEPT ![call.db] =
                               IF call.op = "destroy" THEN "destroyed" ELSE @]
             /\ call' = [call EXCEPT !.pc = "done", !.actionResolved = TRUE,
                                     !.result = OnWorkResolved(call.op, v)]
    /\ UNCHANGED <<doWorkCalls, callsMade>>
    /\ UNCHANGED notWork

\* the awaited action rejects: doWork rejects, nothing after the await runs
ActionPromiseRejects(e) ==
    /\ call.pc = "action"
    /\ ~call.degraded
    /\ call' = [call EXCEPT !.pc = "done",
                            !.storeFailure = [mode |-> "async", error |-> e],
                            !.result = OnWorkRejected(call.op, e)]
    /\ UNCHANGED <<handles, doWorkCalls, callsMade>>
    /\ UNCHANGED notWork

\* the awaited db.close() resolves: doWork returns the result
CloseResolves ==
    /\ call.pc = "closing"
    /\ call' = [call EXCEPT !.pc = "done"]
    /\ UNCHANGED <<handles, doWorkCalls, callsMade>>
    /\ UNCHANGED notWork

ParkedWork ==
    /\ handles = <<>>
    /\ doWorkCalls = 0
    /\ call = NoCall
    /\ callsMade = 0

(***************************************************************************)
(*                           Specifications                                *)
(***************************************************************************)
InitSpecTx == InitTx /\ ParkedBulk /\ ParkedDel /\ ParkedWork

NextTx == NextOf(Tx)

\* NumTx instances, interleaved in every possible way
SpecTx == InitSpecTx /\ [][NextTx]_vars

\* Two instances interleaved, where an attempt in flight eventually settles and
\* a pending timer eventually fires (the event loop runs every callback that
\* is due); the remaining instances are never started.
FairTx == {1, 2}

NextTxPair == NextOf(FairTx)

SpecTxFair ==
    /\ InitSpecTx
    /\ [][NextTxPair]_vars
    /\ \A t \in FairTx : WF_vars(Settle(t)) /\ WF_vars(TimerFires(t))

InitSpecBulk == InitBulk /\ InitTx /\ ParkedDel /\ ParkedWork

NextBulk ==
    \/ BulkOperations
    \/ BulkOperationsRejects
    \/ SetDbGeneratedValues

SpecBulk == InitSpecBulk /\ [][NextBulk]_vars

InitSpecDel == InitDel /\ InitTx /\ ParkedBulk /\ ParkedWork

NextDel ==
    \/ FormatDeletions
    \/ FormatDeletionsAgain

SpecDel == InitSpecDel /\ [][NextDel]_vars

InitSpecWork == InitWork /\ InitTx /\ ParkedBulk /\ ParkedDel

NextWork ==
    \/ \E op \in Operations : Invoke(op)
    \/ \E op \in Operations : \E e \in StoreErrors : InvokeThrows(op, e)
    \/ GetStrictOfNothing
    \/ ActionPromiseResolves
    \/ \E e \in StoreErrors : ActionPromiseRejects(e)
    \/ CloseResolves

SpecWork == InitSpecWork /\ [][NextWork]_vars

(***************************************************************************)
(*                     Properties of Transaction                           *)
(***************************************************************************)
IsPrefix(s, full) == Len(s) <= Len(full) /\ s = SubSeq(full, 1, Len(s))

HasPrefix(str, prefix) ==
    Len(str) >= Len(prefix) /\ SubSeq(str, 1, Len(prefix)) = prefix

\* what the claims call an error "carrying a numeric status >= 500"
CarriesStatusAtLeast500(e) ==
    "status" \in DOMAIN e /\ e.status.type = "number" /\ e.status.num >= 500

\* failed attempts of t so far
Failures(t) == attempts[t] - inflight[t] - resolved[t]

\* every failure of t so far was the status-503 error
Only503(t) == resolved[t] = 0 /\ failedWith[t] \subseteq {E503}

Terminal(t) == resolved[t] + rejected[t] > 0

\* C1: a transaction whose action fails every time with status 503 schedules the
\* timers 25, 50, 100, 200, 400, 800, 1600 in that order, one per failure, runs
\* the action 8 times and rejects on the 8th failure without an 8th timer.
C1_RetrySchedule ==
    \A t \in Tx :
        Only503(t) =>
            /\ IsPrefix(timerLog[t], <<25, 50, 100, 200, 400, 800, 1600>>)
            /\ Len(timerLog[t]) = (IF Failures(t) < 7 THEN Failures(t) ELSE 7)
            /\ attempts[t] <= 8
            /\ (rejected[t] > 0) = (Failures(t) = 8)
            /\ rejected[t] > 0 => attempts[t] = 8 /\ timers[t] = 0 /\ rejected[t] = 1

C1_Witness ==
    \E t \in Tx :
        /\ failedWith[t] = {E503}
        /\ rejected[t] = 1
        /\ attempts[t] = 8
        /\ timerLog[t] = <<25, 50, 100, 200, 400, 800, 1600>>

\* C2: once the action has failed with an error that carries no numeric status
\* >= 500, on whatever attempt, the transaction is rejected with that very error,
\* no timer was scheduled for the failure and no further attempt runs.
C2_NonRetryableRejects ==
    \A t \in Tx : \A e \in failedWith[t] :
        ~CarriesStatusAtLeast500(e) =>
            /\ rejected[t] = 1 /\ resolved[t] = 0
            /\ rejectValue[t] = e
            /\ timers[t] = 0 /\ inflight[t] = 0
            /\ Len(timerLog[t]) = attempts[t] - 1

C2_Witness ==
    /\ \E t \in Tx : attempts[t] = 1 /\ rejected[t] = 1 /\ rejectValue[t] = E404
                     /\ timerLog[t] = <<>>
    /\ \E t \in Tx : attempts[t] > 1 /\ rejected[t] = 1
                     /\ rejectValue[t] \in {EStrStatus, ENoStatus}

\* the transaction was rejected for reaching the ceiling after failing with 503 only
CeilingRejected503(t) == failedWith[t] = {E503} /\ rejected[t] > 0

OtherFieldsPreserved(v, e) ==
    /\ DOMAIN v = DOMAIN e
    /\ \A f \in DOMAIN e \ {"message"} : v[f] = e[f]

\* C3 as stated: the rejection reports a max wait of 2000
C3_Original ==
    \A t \in Tx :
        CeilingRejected503(t) =>
            /\ OtherFieldsPreserved(rejectValue[t], E503)
            /\ rejectValue[t].message.type = "string"
            /\ \/ HasPrefix(rejectValue[t].message.str, "Retry Failed. Max Wait: 2000.")
               \/ HasPrefix(rejectValue[t].message.str, "Retry Failed.  Max Wait: 2000.")

\* C3 (amended): the rejection value of a transaction that always failed with
\* status 503 and a textual message is the original error with every other field
\* preserved and the message "Retry Failed.  Max Wait: 3200.  Original Message: "
\* followed by the original message: the wait reported is the doubled backoff
\* that reached the ceiling, 3200, not the ceiling 2000.
C3_CeilingMessage ==
    \A t \in Tx :
        CeilingRejected503(t) =>
            /\ OtherFieldsPreserved(rejectValue[t], E503)
            /\ rejectValue[t].message =
                 Str("Retry Failed.  Max Wait: 3200.  Original Message: timeout")
            /\ backoffTimeout[t] = 3200

C3_Witness ==
    \E t \in Tx : CeilingRejected503(t) /\ attempts[t] = 8 /\ rejectValue[t] # E503

\* C8: every instance has at most one outstanding step (an attempt in flight or
\* a pending timer), and an attempt other than the first starts only when no
\* attempt of the instance is in flight and by consuming its pending timer.
C8_SingleFlight ==
    /\ [](\A t \in Tx : inflight[t] + timers[t] <= 1)
    /\ [][\A t \in Tx :
            attempts'[t] # attempts[t] =>
                /\ attempts'[t] = attempts[t] + 1
                /\ inflight[t] = 0 /\ inflight'[t] = 1
                /\ \/ attempts[t] = 0 /\ timers[t] = 0 /\ timers'[t] = 0
                   \/ attempts[t] > 0 /\ timers[t] = 1 /\ timers'[t] = 0]_vars

\* two instances are outstanding at once, one waiting and one in flight, and
\* one of them is past its first attempt
C8_Witness ==
    \E t, u \in Tx :
        /\ t # u
        /\ timers[t] = 1 /\ inflight[u] = 1
        /\ attempts[u] > 1 /\ attempts[t] # attempts[u]

\* C9: a started transaction ends: exactly one of resolve / reject is called,
\* once, after at most 8 attempts, and nothing happens to it afterwards.
C9_Terminates ==
    /\ [](\A t \in FairTx :
            /\ resolved[t] + rejected[t] <= 1
            /\ attempts[t] <= 8
            /\ Terminal(t) => inflight[t] = 0 /\ timers[t] = 0)
    /\ [][\A t \in FairTx :
            Terminal(t) =>
                /\ attempts'[t] = attempts[t]
                /\ timerLog'[t] = timerLog[t]
                /\ resolved'[t] = resolved[t]
                /\ rejected'[t] = rejected[t]]_vars
    /\ \A t \in FairTx : (attempts[t] > 0) ~> Terminal(t)

C9_Witness ==
    /\ \E t \in FairTx : resolved[t] = 1 /\ rejected[t] = 0 /\ attempts[t] > 1
    /\ \E t \in FairTx : rejected[t] = 1 /\ resolved[t] = 0 /\ attempts[t] = 8

(***************************************************************************)
(*        Properties of formatBulkDocsResponse, setDbGeneratedValues       *)
(***************************************************************************)
Formatted == bulkPc \in {"resolved", "set"}

\* outcomes of the store's answer that carry no id
MissingId == {i \in 1..Len(raw) : "id" \notin DOMAIN raw[i]}

CountsAddUp ==
    response.successes_count + response.errors_count + Cardinality(MissingId)
        = Len(raw)

\* ids the store reported both in a success and in an error outcome
ReportedBothWays ==
    {raw[i].id.str : i \in {j \in 1..Len(raw) :
        /\ "id" \in DOMAIN raw[j] /\ "error" \notin DOMAIN raw[j]
        /\ \E k \in 1..Len(raw) :
              /\ "error" \in DOMAIN raw[k] /\ "id" \in DOMAIN raw[k]
              /\ raw[k].id = raw[j].id}}

\* C4 as stated: the counts add up and no id is a key of both maps
C4_Original ==
    Formatted =>
        /\ CountsAddUp
        /\ (DOMAIN response.successes) \cap (DOMAIN response.errors) = {}

\* C4 (amended): for every list of outcomes, successes_count + errors_count +
\* (number of outcomes without an id) is the number of outcomes; an id is a key
\* of both maps exactly when the list holds both a success and an error outcome
\* for it, so the maps are disjoint only when no id is reported both ways.
C4_CountsAndKeys ==
    Formatted =>
        /\ CountsAddUp
        /\ (DOMAIN response.successes) \cap (DOMAIN response.errors)
              = ReportedBothWays

\* a remove-then-add of one id, the removal written and the addition refused,
\* and a batch with an outcome that carries no id
C4_Witness ==
    /\ Formatted
    /\ Len(operations.removes) = 1 /\ Len(operations.adds) = 1
    /\ operations.removes[1]._id = operations.adds[1]._id
    /\ "error" \notin DOMAIN raw[1] /\ "error" \in DOMAIN raw[2]
    /\ ReportedBothWays # {}
    /\ response.successes_count = 1 /\ response.errors_count = 1

\* the entity before setDbGeneratedValues ran
Written(i) == Docs(operations)[i]

\* C5 as stated: an entity whose id is a key of successes has that entry's rev,
\* any other entity keeps its _rev
C5_Original ==
    bulkPc = "set" =>
        \A i \in 1..Len(entities) :
            LET id == entities[i]._id.str IN
            IF id \in DOMAIN response.successes
            THEN Get(entities[i], "_rev") = response.successes[id].rev
            ELSE Get(entities[i], "_rev") = Get(Written(i), "_rev")

\* C5 (amended): after setDbGeneratedValues, an entity whose id is a key of
\* successes with ok true has that entry's rev; every other entity (its id no
\* key of successes, or the entry's ok not true) keeps its previous _rev; no
\* other field of an entity changes.
C5_RevBackFill ==
    bulkPc = "set" =>
        /\ Len(entities) = Len(Docs(operations))
        /\ \A i \in 1..Len(entities) :
            LET id == entities[i]._id.str IN
            IF id \in DOMAIN response.successes
               /\ response.successes[id].ok = Bool(TRUE)
            THEN entities[i] = Spread(Written(i),
                                      [_rev |-> response.successes[id].rev])
            ELSE entities[i] = Written(i)

\* one entity written with ok true and back-filled, one whose success entry has
\* ok false, which keeps its rev
C5_Witness ==
    /\ bulkPc = "set"
    /\ \E i, j \in 1..Len(entities) :
        /\ entities[i]._id.str \in DOMAIN response.successes
        /\ response.successes[entities[i]._id.str].ok = Bool(TRUE)
        /\ Get(entities[i], "_rev") = Str("2-y")
        /\ Get(Written(i), "_rev") # Str("2-y")
        /\ entities[j]._id.str \in DOMAIN response.successes
        /\ response.successes[entities[j]._id.str].ok = Bool(FALSE)
        /\ entities[j] = Written(j)

(***************************************************************************)
(*                      Properties of formatDeletions                      *)
(***************************************************************************)
TombstoneFields == {"_id", "_rev", "DocumentType", "_deleted"}

\* out keeps in's _id, _rev and DocumentType and is flagged deleted
IdentityKept(out, in) ==
    /\ TombstoneFields \subseteq DOMAIN out
    /\ out._id = Get(in, "_id")
    /\ out._rev = Get(in, "_rev")
    /\ out.DocumentType = Get(in, "DocumentType")
    /\ out._deleted = Bool(TRUE)

\* C6 as stated: the result has the four tombstone fields and no other
C6_Original ==
    /\ delPc \in {"once", "twice"} =>
        \A i \in 1..Len(delInput) :
            /\ IdentityKept(delOnce[i], delInput[i])
            /\ DOMAIN delOnce[i] = TombstoneFields
    /\ delPc = "twice" =>
        \A i \in 1..Len(delInput) :
            /\ IdentityKept(delTwice[i], delInput[i])
            /\ DOMAIN delTwice[i] = TombstoneFields

\* C6 (amended): formatDeletions returns, for every entity, a copy that keeps
\* every field of the input (not only _id, _rev and DocumentType, which equal
\* the input's) and has _deleted = true; applied again to its result it yields
\* that same result.
C6_DeletionShape ==
    /\ delPc \in {"once", "twice"} =>
        /\ Len(delOnce) = Len(delInput)
        /\ \A i \in 1..Len(delInput) :
            /\ IdentityKept(delOnce[i], delInput[i])
            /\ DOMAIN delOnce[i] = (DOMAIN delInput[i]) \cup TombstoneFields
            /\ \A f \in (DOMAIN delInput[i]) \ {"_deleted"} :
                  delOnce[i][f] = delInput[i][f]
    /\ delPc = "twice" => delTwice = delOnce

\* an entity with fields of its own went through formatDeletions twice
C6_Witness ==
    /\ delPc = "twice"
    /\ \E i \in 1..Len(delInput) :
        /\ "title" \in DOMAIN delInput[i]
        /\ "_deleted" \notin DOMAIN delInput[i]
        /\ "title" \in DOMAIN delTwice[i]
        /\ delTwice[i]._deleted = Bool(TRUE)

(***************************************************************************)
(*                   Properties of doWork and all()                        *)
(***************************************************************************)
\* C7: when the find call made by all() fails, by a throw or by a rejected
\* promise, all() rethrows a "database is closed" error and resolves to an
\* empty list for any other error.
C7_AllDegrades ==
    (call.op = "all" /\ call.pc = "done" /\ "error" \in DOMAIN call.storeFailure) =>
        LET e == call.storeFailure.error IN
        IF IsDatabaseClosed(e)
        THEN call.result = Rejected(e)
        ELSE call.result.kind = "resolved" /\ call.result.value = <<>>

\* the action of the current operation failed, so that doWork rejected
ActionFailed ==
    /\ "error" \in DOMAIN call.storeFailure
    /\ ~call.degraded
    /\ call.pc = "done"

====
